---- MODULE Spec2Model ----
(***************************************************************************)
(* herdstat contribution graph: the run of the contribution-graph command  *)
(* (cmd/contribution_graph.go) and the heatmap engine it drives            *)
(* (internal/contribution_graph.go, internal/utils.go).                    *)
(*                                                                         *)
(* Times are in UTC, the location dateparse gives a date without a zone.   *)
(* A time is [day, sec, ns]: the day number since 1970-01-01, the second   *)
(* of the day and the nanosecond of the second.                            *)
(***************************************************************************)
EXTENDS Integers, Sequences, FiniteSets, TLC

VARIABLES
    pc,       \* position of run: start, collect, calendar, commits, issues,
              \* reviews, render, done, error, panic (level, levelled and
              \* legend under SpecLevel, sliced and drawn under SpecCells,
              \* pair and compared under SpecPair, rendering and returned
              \* under SpecRender), then flushed, created, finished
    cfg,      \* the configuration run reads: [color, levels, until]
    lastDay,  \* the time getUntilDate returns
    data,     \* the contribution records: Seq of [Date, Count]
    nEvents,  \* the number of events the sources have delivered so far
    ev,       \* the event delivered last: [src, when, filtered, idx]
    slices,   \* the week slices Render prepared
    rest,     \* the records Render's slicing loop left over
    err,      \* the error run returns ("" while there is none)
    q,        \* the level computed under SpecLevel, the cell drawn under SpecCells
    out       \* the output of run: [flushed, file], whether the encoder is
              \* flushed and the output file (none, empty, partial, written)

vars == <<pc, cfg, lastDay, data, nEvents, ev, slices, rest, err, q, out>>

----------------------------------------------------------------------------
(* Bounds of the model.                                                    *)

\* The first date given as 'until' (19786 = 2024-03-04, a Monday; the
\* Saturday of that week, 2024-03-09, ends a week that holds March 3rd).
FirstUntil == 19786
\* The number of consecutive dates given as 'until'.
UntilSpan == 7
\* The number of events the event sources deliver in one run.
MaxEvents == 2
\* The small counts of the records whose cells are compared.
MaxCount == 4

----------------------------------------------------------------------------
(* Program constants.                                                      *)

\* 52*7, the number of records of a contribution graph.
NumRecords == 364
\* The smallest number of colour levels run accepts.
MinLevels == 5
\* math.MaxUint8, the largest number of colour levels run accepts.
MaxLevels == 255

Sunday == 0
Saturday == 6

SecondsPerDay == 24 * 60 * 60
NanosPerSecond == 1000 * 1000 * 1000

----------------------------------------------------------------------------
(* The time package, as far as the program uses it.                        *)

ZeroTime == [day |-> 0, sec |-> 0, ns |-> 0]

\* time.Time.Weekday: 1970-01-01 was a Thursday.
Weekday(t) == (t.day + 4) % 7

isLeap(y) == y % 4 = 0 /\ (y % 100 # 0 \/ y % 400 = 0)

\* The number of days of month m of year y.
DaysIn(y, m) ==
    IF m = 2 THEN (IF isLeap(y) THEN 29 ELSE 28)
    ELSE IF m \in {4, 6, 9, 11} THEN 30 ELSE 31

\* daysBefore[m-1]: the days of a non-leap year before month m.
daysBefore(m) ==
    <<0, 31, 59, 90, 120, 151, 181, 212, 243, 273, 304, 334>>[m]

\* The days since 1970-01-01 of January 1st of year y.
daysSinceEpoch(y) ==
    LET p == y - 1
    IN  365 * (y - 1970) + (p \div 4 - 492) - (p \div 100 - 19) + (p \div 400 - 4)

\* time.Date(y, m, d, ...) for a month in 1..12: the day number, the day of
\* the month being normalised by plain addition (October 32 is November 1,
\* March 0 is the last day of February).
DateToDay(y, m, d) ==
    daysSinceEpoch(y) + daysBefore(m)
        + (IF isLeap(y) /\ m >= 3 THEN 1 ELSE 0) + (d - 1)

\* time.Time.Date: the year, month and day of a day number.
Civil(day) ==
    LET z == day + 719468
        era == z \div 146097
        doe == z - era * 146097
        yoe == (doe - doe \div 1460 + doe \div 36524 - doe \div 146096) \div 365
        doy == doe - (365 * yoe + yoe \div 4 - yoe \div 100)
        mp == (5 * doy + 2) \div 153
        d == doy - (153 * mp + 2) \div 5 + 1
        m == IF mp < 10 THEN mp + 3 ELSE mp - 9
        y == yoe + era * 400 + (IF m <= 2 THEN 1 ELSE 0)
    IN  [y |-> y, m |-> m, d |-> d]

\* time.Time.AddDate(0, 0, n): the date is taken apart, n is added to the
\* day of the month and time.Date normalises; the clock is kept.
AddDate(t, n) ==
    LET c == Civil(t.day)
    IN  [t EXCEPT !.day = DateToDay(c.y, c.m, c.d + n)]

\* time.Time.Before and After.
Before(a, b) ==
    \/ a.day < b.day
    \/ a.day = b.day /\ a.sec < b.sec
    \/ a.day = b.day /\ a.sec = b.sec /\ a.ns < b.ns

After(a, b) == Before(b, a)

\* time.Time.Sub: b - a as a Duration, kept as sign and magnitude
\* [neg, s, n]: s whole seconds and n nanoseconds.
Sub(b, a) ==
    LET s0 == (b.day - a.day) * SecondsPerDay + (b.sec - a.sec)
        n0 == b.ns - a.ns
        s1 == IF n0 < 0 THEN s0 - 1 ELSE s0
        n1 == IF n0 < 0 THEN n0 + NanosPerSecond ELSE n0
    IN  IF s1 >= 0 THEN [neg |-> FALSE, s |-> s1, n |-> n1]
        ELSE IF n1 = 0 THEN [neg |-> TRUE, s |-> -s1, n |-> 0]
        ELSE [neg |-> TRUE, s |-> -s1 - 1, n |-> NanosPerSecond - n1]

\* 2^k for the small k the rounding below needs.
Pow2(k) == <<1, 2, 4, 8, 16, 32, 64, 128, 256, 512, 1024, 2048, 4096, 8192,
             16384, 32768, 65536, 131072, 262144, 524288, 1048576, 2097152,
             4194304, 8388608, 16777216, 33554432, 67108864, 134217728,
             268435456>>[k + 1]

\* The m with 2^m < h <= 2^(m+1), for 4096 < h <= 32768.
Binade(h) == IF h <= 8192 THEN 12 ELSE IF h <= 16384 THEN 13 ELSE 14

\* time.Duration.Hours of the magnitude of d, rounded down to whole hours:
\*     hour := d / Hour; nsec := d % Hour
\*     return float64(hour) + float64(nsec)/(60*60*1e9)
\* The sum is a float64, rounded to nearest. With H whole hours and the
\* rest short of the next hour by deficit nanoseconds, the exact sum is
\* H + 1 - deficit/3.6e12, and it rounds to H + 1 when deficit/3.6e12 is
\* below half the spacing 2^(m-52) of the float64s below H + 1, where
\* 2^m < H + 1 <= 2^(m+1). As 3.6e12 = 2^13 * 439453125 this is
\*     deficit * 2^(40-m) < 439453125,
\* never so for H + 1 <= 4096 nor for deficit > 6 (durations stay below
\* 2^15 hours). Otherwise the sum stays in [H, H + 1).
Hours(d) ==
    LET H == d.s \div 3600
        r == d.s % 3600
        deficit == NanosPerSecond - d.n
        up == /\ r = 3599
              /\ deficit <= 6
              /\ H + 1 > 4096
              /\ deficit * Pow2(40 - Binade(H + 1)) < 439453125
    IN  IF up THEN H + 1 ELSE H

\* internal.DaysBetween: int(b.Sub(a).Hours() / 24). The conversion to int
\* truncates toward zero; the division by 24 of a float64 in [H, H + 1)
\* does not reach the next whole number.
DaysBetween(a, b) ==
    LET d == Sub(b, a)
        days == Hours(d) \div 24
    IN  IF d.neg THEN -days ELSE days

\* previousSunday going back a whole week from a Sunday.
previousSundayStrict(date) ==
    AddDate(date, -(IF Weekday(date) = Sunday THEN 7 ELSE Weekday(date)))

\* previousSunday stopping at the Monday.
previousMonday(date) == AddDate(date, -Weekday(date) + 1)

\* The Sunday after the date.
followingSunday(date) == AddDate(date, 7 - Weekday(date))

\* internal.previousSunday.
previousSunday(date) == AddDate(date, -Weekday(date))

\* take with the rest starting one element early (records[n-1:]).
takeOverlapping(records, n) ==
    <<SubSeq(records, 1, n), SubSeq(records, n, Len(records))>>

\* internal.take: records[:n] and records[n:]. Slicing beyond the length
\* (or with a negative n) panics; the caller below never does.
take(records, n) ==
    <<SubSeq(records, 1, n), SubSeq(records, n + 1, Len(records))>>

\* The step of the loop of internal.max, with the comparison intensity
\* passes (a.Count - b.Count): e replaces the maximum so far when
\* comp(e, max) > 0.
maxStep(best, e) == IF e.Count - best.Count > 0 THEN e ELSE best

\* The loop of internal.max over elements[lo .. hi]. A later element
\* replaces the maximum only when it is greater, so the result is the
\* first greatest element, and the loop over a range is the loop over its
\* two halves, the first half's result winning a tie.
RECURSIVE maxRange(_, _, _)
maxRange(elements, lo, hi) ==
    IF lo = hi THEN elements[lo]
    ELSE maxStep(maxRange(elements, lo, (lo + hi) \div 2),
                 maxRange(elements, (lo + hi) \div 2 + 1, hi))

\* internal.max: the zero element for no elements.
max(elements) ==
    IF Len(elements) = 0 THEN [Date |-> ZeroTime, Count |-> 0]
    ELSE maxRange(elements, 1, Len(elements))

----------------------------------------------------------------------------
(* The inputs of a run.                                                    *)

\* The 'until' parameter as dateparse returns it: midnight of the date.
UntilInputs ==
    {[day |-> d, sec |-> 0, ns |-> 0] : d \in FirstUntil .. FirstUntil + UntilSpan - 1}

\* The 'levels' parameter: below, at the ends of and above the valid range.
LevelInputs == {MinLevels - 1, MinLevels, MaxLevels, MaxLevels + 1}

\* The 'color' parameter: the default colour and a malformed one.
ColorInputs == {"39D352", "39D35"}

\* colorx.ParseHexColor accepts '#' and 3 or 6 hex digits.
ParseHexColorOK(colorStr) == colorStr = "39D352"

\* The timestamps of events, as days before lastDay and second of the day
\* (commits, issues and reviews carry whole seconds).
EventDayOffsets == {-2, -1, 0, 170, 363, 364}
EventClocks == {0, 43200}

EventTimes ==
    {[day |-> lastDay.day - k, sec |-> s, ns |-> 0] :
        k \in EventDayOffsets, s \in EventClocks}

NoEvent == [src |-> "none", when |-> ZeroTime, filtered |-> FALSE, idx |-> 0]
NoQ == [levels |-> 0, intensity |-> 0, level |-> 0]

\* No output yet: the encoder is not flushed and there is no output file.
NoOutput == [flushed |-> FALSE, file |-> "none"]

----------------------------------------------------------------------------
(* run, cmd/contribution_graph.go.                                         *)

\* The end of the day with the nanosecond of the parsed date kept.
getUntilDateKeepingNanos(date) ==
    LET c == Civil(date.day)
    IN  [day |-> DateToDay(c.y, c.m, c.d), sec |-> 23 * 3600 + 59 * 60 + 59,
         ns |-> date.ns]

\* getUntilDate: the last nanosecond of the day of the parsed date.
getUntilDate(date) ==
    LET c == Civil(date.day)
    IN  [day |-> DateToDay(c.y, c.m, c.d), sec |-> 23 * 3600 + 59 * 60 + 59,
         ns |-> NanosPerSecond - 1]

\* The records dated one day early: record i is lastDay minus 52*7 - i days.
NewRecordsDayEarly(last) ==
    [i \in 1 .. NumRecords |->
        [Date |-> AddDate(last, -(NumRecords - (i - 1))), Count |-> 0]]

\* The records run creates: record i (from 0) is dated lastDay minus
\* 52*7 - 1 - i days, with count 0.
NewRecords(last) ==
    [i \in 1 .. NumRecords |->
        [Date |-> AddDate(last, -(NumRecords - 1 - (i - 1))), Count |-> 0]]

\* The record marked as having a contribution (Count = 1).
IncrementOnce(records, i) ==
    [records EXCEPT ![i + 1].Count = 1]

\* (*records)[i].Count++
Increment(records, i) ==
    [records EXCEPT ![i + 1].Count = @ + 1]

\* The index an event is counted at.
IndexOf(when, last) == NumRecords - 1 - DaysBetween(when, last)

Init ==
    /\ out = NoOutput
    /\ pc = "start"
    /\ cfg \in [color : ColorInputs, levels : LevelInputs, until : UntilInputs]
    /\ lastDay = ZeroTime
    /\ data = <<>>
    /\ nEvents = 0
    /\ ev = NoEvent
    /\ slices = <<>>
    /\ rest = <<>>
    /\ err = ""
    /\ q = NoQ

\* The check of the levels with 256 let through.
levelsInRangeOfByte(levels) == ~(levels < MinLevels \/ levels > MaxLevels + 1)

\* The check of the levels: levels < 5 || levels > math.MaxUint8 is an
\* error.
levelsInRange(levels) == ~(levels < MinLevels \/ levels > MaxLevels)

\* The colour and the number of levels are checked first.
ValidateConfig ==
    /\ pc = "start"
    /\ IF ~ParseHexColorOK(cfg.color)
       THEN pc' = "error" /\ err' = "invalid color specification"
       ELSE IF ~levelsInRange(cfg.levels)
       THEN pc' = "error" /\ err' = "invalid number of color levels"
       ELSE pc' = "collect" /\ err' = err
    /\ UNCHANGED <<cfg, lastDay, data, nEvents, ev, slices, rest, q, out>>

\* collectRepositories succeeds or fails.
CollectRepositories ==
    /\ pc = "collect"
    /\ \E ok \in BOOLEAN :
        IF ok THEN pc' = "calendar" /\ err' = err
        ELSE pc' = "error" /\ err' = "collecting repositories failed"
    /\ UNCHANGED <<cfg, lastDay, data, nEvents, ev, slices, rest, q, out>>

\* getUntilDate and the creation of the 52*7 records.
MakeCalendar ==
    /\ pc = "calendar"
    /\ lastDay' = getUntilDate(cfg.until)
    /\ data' = NewRecords(lastDay')
    /\ pc' = "commits"
    /\ UNCHANGED <<cfg, nEvents, ev, slices, rest, err, q, out>>

\* One commit of a repository. r.Log hands on the commits committed
\* neither before since = lastDay - 52*7 days nor after until = lastDay;
\* the callback counts a commit no filter matches, at an index it does not
\* check.
AddCommit ==
    /\ pc = "commits"
    /\ nEvents < MaxEvents
    /\ \E when \in EventTimes, filtered \in BOOLEAN :
        LET since == AddDate(lastDay, -NumRecords)
            logged == ~Before(when, since) /\ ~After(when, lastDay)
            i == IndexOf(when, lastDay)
        IN  /\ ev' = [src |-> IF logged THEN "commit" ELSE "unlogged",
                      when |-> when, filtered |-> filtered, idx |-> i]
            /\ IF ~logged \/ filtered
               THEN pc' = pc /\ data' = data
               ELSE IF i < 0 \/ i >= Len(data)
               THEN pc' = "panic" /\ data' = data
               ELSE pc' = pc /\ data' = Increment(data, i)
    /\ nEvents' = nEvents + 1
    /\ UNCHANGED <<cfg, lastDay, slices, rest, err, q, out>>

EndCommits ==
    /\ pc = "commits"
    /\ pc' = "issues"
    /\ UNCHANGED <<cfg, lastDay, data, nEvents, ev, slices, rest, err, q, out>>

\* One issue or pull request a repository lists: skipped when its index is
\* negative, counted otherwise.
AddIssue ==
    /\ pc = "issues"
    /\ nEvents < MaxEvents
    /\ \E when \in EventTimes :
        LET idx == IndexOf(when, lastDay)
        IN  /\ ev' = [src |-> "issue", when |-> when, filtered |-> FALSE, idx |-> idx]
            /\ IF idx < 0
               THEN pc' = pc /\ data' = data
               ELSE IF idx >= Len(data)
               THEN pc' = "panic" /\ data' = data
               ELSE pc' = pc /\ data' = Increment(data, idx)
    /\ nEvents' = nEvents + 1
    /\ UNCHANGED <<cfg, lastDay, slices, rest, err, q, out>>

EndIssues ==
    /\ pc = "issues"
    /\ pc' = "reviews"
    /\ UNCHANGED <<cfg, lastDay, data, nEvents, ev, slices, rest, err, q, out>>

\* One review of a pull request: counted when its index is not negative.
AddReview ==
    /\ pc = "reviews"
    /\ nEvents < MaxEvents
    /\ \E when \in EventTimes :
        LET idx == IndexOf(when, lastDay)
            match == idx >= 0
        IN  /\ ev' = [src |-> "review", when |-> when, filtered |-> FALSE, idx |-> idx]
            /\ IF ~match
               THEN pc' = pc /\ data' = data
               ELSE IF idx >= Len(data)
               THEN pc' = "panic" /\ data' = data
               ELSE pc' = pc /\ data' = Increment(data, idx)
    /\ nEvents' = nEvents + 1
    /\ UNCHANGED <<cfg, lastDay, slices, rest, err, q, out>>

EndReviews ==
    /\ pc = "reviews"
    /\ pc' = "render"
    /\ UNCHANGED <<cfg, lastDay, data, nEvents, ev, slices, rest, err, q, out>>

----------------------------------------------------------------------------
(* The contribution graph, internal/contribution_graph.go.                 *)

CanvasWidth == 700
CanvasHeight == 150
TooltipWidth == 230
TooltipHeight == 30
tooltipSize == 5
tooltipOffset == 10

\* The intensity with the product taken first and cut to 8 bits.
intensityWrapped(records, r) ==
    LET maxCount == max(records).Count
    IN  IF maxCount = 0 THEN 0
        ELSE ((255 * r.Count) % 256) \div maxCount

\* ContributionGraph.intensity: uint8(255.0 / maxCount * r.Count). maxCount
\* and r.Count are ints, so the constant 255.0 is an int too and the
\* quotient is the integer quotient; the conversion keeps the low 8 bits.
intensity(records, r) ==
    LET maxCount == max(records).Count
    IN  IF maxCount = 0 THEN 0
        ELSE ((255 \div maxCount) * r.Count) % 256

\* The level without the math.Min that keeps it below Levels.
colUnclamped(i, levels) == (i * levels + 255) \div 256

\* The level renderDay draws a cell with:
\*     uint8(math.Min(math.Ceil(float64(intensity)/256.0*float64(Levels)),
\*                    float64(Levels-1)))
\* intensity/256 and its product with Levels are exact in float64.
col(i, levels) ==
    LET c == (i * levels + 255) \div 256
    IN  IF c < levels - 1 THEN c ELSE levels - 1

\* newWeekSlice: the slice, or the error of the violated check.
newWeekSlice(refDate, first, last, records, index) ==
    IF Weekday(refDate) # Sunday
    THEN [err |-> "reference day must be a sunday"]
    ELSE IF first # Sunday /\ last # Saturday
    THEN [err |-> "either first must be Sunday or last must be Saturday"]
    ELSE IF Len(records) # last - first + 1
    THEN [err |-> "wrong number of records"]
    ELSE [err |-> "",
          ws |-> [Date |-> refDate, First |-> first, Last |-> last,
                  Records |-> records, Index |-> index % 256]]

\* The number of slices without the default case of 53.
sliceCountAlways52(last) == 52

\* The number of slices: 53, or 52 when the last day is a Saturday.
sliceCount(last) == IF Weekday(last) = Saturday THEN 52 ELSE 53

\* The origin of the cell matrix, shifted right by one column for 52 slices.
location(last) ==
    IF Weekday(last) = Saturday THEN [X |-> 50 + 12, Y |-> 10]
    ELSE [X |-> 50, Y |-> 10]

\* The first weekday of slice i without the reduction modulo 7.
sliceFirstUnreduced(last, i) == IF i = 0 THEN Weekday(last) + 1 ELSE Sunday

\* The first weekday of slice i.
sliceFirst(last, i) == IF i = 0 THEN (Weekday(last) + 1) % 7 ELSE Sunday

\* The last weekday of slice i.
sliceLast(last, i) ==
    IF i # 0 /\ i = sliceCount(last) - 1 THEN Weekday(last) ELSE Saturday

\* ws, err := newWeekSlice(g, previousSunday(...), first, last, sliceRecords, uint8(i))
\* and slices = append(slices, *ws), t being what take returned.
makeSlice(last, i, t, ws, done) ==
    IF ws.err # ""
    THEN [err |-> ws.err, slices |-> done, records |-> t[2]]
    ELSE [err |-> "", slices |-> Append(done, ws.ws), records |-> t[2]]

\* sliceRecords, records = take(records, int(last-first+1)) and the slice
\* made of them; "panic" when take slices beyond the records.
takeSlice(last, i, first, lst, t, done) ==
    makeSlice(last, i, t,
              newWeekSlice(
                  previousSunday(AddDate(last, -(sliceCount(last) - i - 1) * 7)),
                  first, lst, t[1], i),
              done)

\* One turn of the loop of renderContributionCellMatrix that prepares the
\* week slices, st = [err, slices, records] being the slices made so far and
\* the records not yet taken.
sliceIteration(last, i, st) ==
    IF sliceLast(last, i) - sliceFirst(last, i) + 1 < 0
       \/ sliceLast(last, i) - sliceFirst(last, i) + 1 > Len(st.records)
    THEN [st EXCEPT !.err = "panic"]
    ELSE takeSlice(last, i, sliceFirst(last, i), sliceLast(last, i),
                   take(st.records, sliceLast(last, i) - sliceFirst(last, i) + 1),
                   st.slices)

\* The turns lo .. hi-1 of that loop from st on, as the turns of its first
\* half followed by those of its second half; an error ends the loop.
RECURSIVE prepareSlices(_, _, _, _)
prepareSlices(last, lo, hi, st) ==
    IF st.err # "" \/ lo >= hi THEN st
    ELSE IF hi = lo + 1 THEN sliceIteration(last, lo, st)
    ELSE prepareSlices(last, (lo + hi) \div 2, hi,
                       prepareSlices(last, lo, (lo + hi) \div 2, st))

\* The horizontal tooltip anchor with slice 10 still anchored left.
xposInclusive(weekIndex) ==
    IF weekIndex <= 10 THEN "left"
    ELSE IF weekIndex > 42 THEN "right" ELSE "center"

\* The horizontal tooltip anchor renderDay chooses.
xpos(weekIndex) ==
    IF weekIndex < 10 THEN "left"
    ELSE IF weekIndex > 42 THEN "right" ELSE "center"

\* The vertical tooltip anchor with the two cases exchanged.
vposExchanged(record) == IF Weekday(record.Date) <= 2 THEN "top" ELSE "bottom"

\* The vertical tooltip anchor renderDay chooses.
vpos(record) == IF Weekday(record.Date) <= 2 THEN "bottom" ELSE "top"

\* weekSlice.tooltipBoxOrigin.
tooltipBoxOrigin(loc, horizontal, vertical, dimension) ==
    LET dx == IF horizontal = "left" THEN -4 * tooltipSize
              ELSE IF horizontal = "center" THEN -(dimension.X \div 2)
              ELSE -dimension.X + 4 * tooltipSize
        dy == IF vertical = "top"
              THEN -(tooltipSize + dimension.Y + tooltipOffset)
              ELSE tooltipSize + tooltipOffset
    IN  [X |-> loc.X + dx, Y |-> loc.Y + dy]

\* The cell renderDay draws for a record of slice w, i being the intensity
\* of the record: its place on the canvas (the translations of the matrix,
\* of the slice and of the days added up), its intensity and level, and the
\* box of its tooltip.
drawnCell(last, levels, w, record, i) ==
    LET y == Weekday(record.Date) * 12
        x0 == location(last).X + 12 * w.Index
        y0 == location(last).Y + 20
        origin == tooltipBoxOrigin([X |-> 5, Y |-> y + 5], xpos(w.Index),
                                   vpos(record),
                                   [X |-> TooltipWidth, Y |-> TooltipHeight])
    IN  [X |-> x0, Y |-> y0 + y,
         intensity |-> i,
         col |-> col(i, levels),
         horizontal |-> xpos(w.Index), vertical |-> vpos(record),
         boxX |-> x0 + origin.X, boxY |-> y0 + origin.Y]

\* weekSlice.renderDay for a record of slice w of the graph of the records.
renderDay(last, records, levels, w, record) ==
    drawnCell(last, levels, w, record, intensity(records, record))

\* The loop of Render that adds up the counts, over records[lo .. hi], as
\* the sum of its two halves.
RECURSIVE countRange(_, _, _)
countRange(records, lo, hi) ==
    IF lo > hi THEN 0
    ELSE IF lo = hi THEN records[lo].Count
    ELSE countRange(records, lo, (lo + hi) \div 2)
             + countRange(records, (lo + hi) \div 2 + 1, hi)

\* The count without the last record.
overallCountButLast(records) == countRange(records, 1, Len(records) - 1)

\* count := 0; for _, record := range g.Records { count += record.Count }
overallCount(records) == countRange(records, 1, Len(records))

\* The decimal digits.
Digit(d) == <<"0", "1", "2", "3", "4", "5", "6", "7", "8", "9">>[d + 1]

\* fmt.Sprintf("%d", n) as the sequence of its characters.
RECURSIVE formatInt(_)
formatInt(n) ==
    IF n < 0 THEN <<"-">> \o formatInt(-n)
    ELSE IF n < 10 THEN <<Digit(n)>>
    ELSE Append(formatInt(n \div 10), Digit(n % 10))

\* Render: the slices are prepared and drawn, then the label of the overall
\* count is written; q keeps the number the label shows.
Render ==
    /\ pc = "render"
    /\ \E p \in {prepareSlices(lastDay, 0, sliceCount(lastDay),
                                [err |-> "", slices |-> <<>>, records |-> data])} :
           /\ slices' = p.slices
           /\ rest' = p.records
           /\ IF p.err = "panic" THEN pc' = "panic" /\ err' = err /\ q' = q
              ELSE IF p.err # ""
              THEN pc' = "error" /\ err' = "rending SVG failed" /\ q' = q
              ELSE /\ pc' = "done"
                   /\ err' = err
                   /\ q' = [label |-> formatInt(overallCount(data))]
    /\ UNCHANGED <<cfg, lastDay, data, nEvents, ev, out>>

\* Whether the sink of the encoder can refuse a write: the bytes.Buffer of
\* run accepts every write; under SpecRender the sink is any writer.
SinkOutcomes == IF "failed" \in DOMAIN q THEN BOOLEAN ELSE {TRUE}

\* run going on to flush the encoder whatever am.Render returned.
afterRenderUnchecked(renderErr, ok) ==
    IF ok THEN [pc |-> "flushed", err |-> "", flushed |-> TRUE]
    ELSE [pc |-> "error", err |-> "flushing SVG encoder failed", flushed |-> FALSE]

\* run after am.Render returned renderErr: the error is returned, or the
\* encoder is flushed, which writes what it still buffers to the sink and
\* succeeds (ok) or fails.
afterRender(renderErr, ok) ==
    IF renderErr # ""
    THEN [pc |-> "error", err |-> "rending SVG failed", flushed |-> FALSE]
    ELSE IF ok THEN [pc |-> "flushed", err |-> "", flushed |-> TRUE]
    ELSE [pc |-> "error", err |-> "flushing SVG encoder failed", flushed |-> FALSE]

\* run flushes the encoder after am.Render.
Flush ==
    /\ pc \in {"done", "returned"}
    /\ \E ok \in SinkOutcomes :
        \E r \in {afterRender(err, ok)} :
            /\ pc' = r.pc
            /\ err' = r.err
            /\ out' = [out EXCEPT !.flushed = r.flushed]
    /\ UNCHANGED <<cfg, lastDay, data, nEvents, ev, slices, rest, q>>

\* os.Create: the output file is created empty (or truncated), or is not.
CreateFile ==
    /\ pc = "flushed"
    /\ \E ok \in BOOLEAN :
        IF ok
        THEN pc' = "created" /\ err' = err /\ out' = [out EXCEPT !.file = "empty"]
        ELSE pc' = "error" /\ err' = "can't create output file" /\ out' = out
    /\ UNCHANGED <<cfg, lastDay, data, nEvents, ev, slices, rest, q>>

\* The buffer is written to the file, minified or copied: the whole of it,
\* or an error after none or a part of it.
WriteFile ==
    /\ pc = "created"
    /\ \E f \in {"written", "empty", "partial"} :
        /\ out' = [out EXCEPT !.file = f]
        /\ IF f = "written" THEN pc' = "finished" /\ err' = err
           ELSE pc' = "error" /\ err' = "writing SVG to file failed"
    /\ UNCHANGED <<cfg, lastDay, data, nEvents, ev, slices, rest, q>>

Next ==
    \/ ValidateConfig
    \/ CollectRepositories
    \/ MakeCalendar
    \/ AddCommit
    \/ EndCommits
    \/ AddIssue
    \/ EndIssues
    \/ AddReview
    \/ EndReviews
    \/ Render
    \/ Flush
    \/ CreateFile
    \/ WriteFile

Spec == Init /\ [][Next]_vars

----------------------------------------------------------------------------
(* The level of a cell as a function of intensity and levels alone.        *)

InitLevel ==
    /\ out = NoOutput
    /\ pc = "level"
    /\ cfg = [color |-> "39D352", levels |-> MinLevels,
              until |-> [day |-> FirstUntil, sec |-> 0, ns |-> 0]]
    /\ lastDay = ZeroTime
    /\ data = <<>>
    /\ nEvents = 0
    /\ ev = NoEvent
    /\ slices = <<>>
    /\ rest = <<>>
    /\ err = ""
    /\ \E l \in MinLevels .. MaxLevels :
        q = [levels |-> l, intensity |-> 0, level |-> 0]

\* renderDay computes the level of an intensity.
Quantise ==
    /\ pc = "level"
    /\ \E i \in 0 .. 255 :
        q' = [q EXCEPT !.intensity = i, !.level = col(i, q.levels)]
    /\ pc' = "levelled"
    /\ UNCHANGED <<cfg, lastDay, data, nEvents, ev, slices, rest, err, out>>

\* The number of swatches renderLegend draws.
LegendSwatches == 5

\* The level of swatch i of the legend: (g.Levels - 1) / 4 * uint8(i), the
\* quotient being the quotient of uint8s.
legendLevel(levels, i) == (((levels - 1) \div 4) * i) % 256

\* renderLegend draws one of its swatches.
LegendSwatch ==
    /\ pc = "level"
    /\ \E i \in 0 .. LegendSwatches - 1 :
        q' = [levels |-> q.levels, swatch |-> i,
              level |-> legendLevel(q.levels, i)]
    /\ pc' = "legend"
    /\ UNCHANGED <<cfg, lastDay, data, nEvents, ev, slices, rest, err, out>>

SpecLevel == InitLevel /\ [][Quantise \/ LegendSwatch]_vars

----------------------------------------------------------------------------
(* The cells of a graph, one at a time: a ContributionGraph whose records  *)
(* hold up to MaxEvents contributions, the slices Render prepares of it,   *)
(* and the cell renderDay draws for one record of one slice.               *)

\* The records of such graphs: contributions on the last day and 170 days
\* before.
CellCalendars(last) ==
    {[NewRecords(last) EXCEPT ![NumRecords].Count = a,
                              ![NumRecords - 170].Count = b] :
        a \in 0 .. MaxEvents, b \in 0 .. MaxEvents}

InitCells ==
    /\ out = NoOutput
    /\ pc = "sliced"
    /\ cfg \in [color : {"39D352"}, levels : {MinLevels, MaxLevels},
                until : UntilInputs]
    /\ lastDay = getUntilDate(cfg.until)
    /\ data \in {c \in CellCalendars(lastDay) :
                    c[NumRecords].Count + c[NumRecords - 170].Count <= MaxEvents}
    /\ nEvents = 0
    /\ ev = NoEvent
    /\ \E p \in {prepareSlices(lastDay, 0, sliceCount(lastDay),
                               [err |-> "", slices |-> <<>>, records |-> data])} :
           slices = p.slices /\ rest = p.records
    /\ err = ""
    /\ q = NoQ

\* renderDay draws the cell of one record of one slice.
DrawDay ==
    /\ pc = "sliced"
    /\ \E k \in 1 .. Len(slices) :
        \E j \in 1 .. Len(slices[k].Records) :
            q' = [slice |-> k - 1, record |-> slices[k].Records[j],
                  cell |-> renderDay(lastDay, data, cfg.levels, slices[k],
                                     slices[k].Records[j])]
    /\ pc' = "drawn"
    /\ UNCHANGED <<cfg, lastDay, data, nEvents, ev, slices, rest, err, out>>

SpecCells == InitCells /\ [][DrawDay]_vars

----------------------------------------------------------------------------
(* The cells of two records of one graph: a ContributionGraph whose        *)
(* records hold small counts or counts around the range of a uint8, and    *)
(* the intensity and level renderDay draws two of its records with.        *)

\* The counts of the records compared.
CountInputs ==
    (0 .. MaxCount) \cup {MaxLevels, MaxLevels + 1, 2 * (MaxLevels + 1)}

\* The indices of the records that hold them.
PairIndices == {1, NumRecords - 170, NumRecords}

InitPair ==
    /\ out = NoOutput
    /\ pc = "pair"
    /\ cfg \in [color : {"39D352"},
                levels : {MinLevels, MinLevels + 1, MaxLevels},
                until : {[day |-> FirstUntil, sec |-> 0, ns |-> 0]}]
    /\ lastDay = getUntilDate(cfg.until)
    /\ \E a \in CountInputs, b \in CountInputs, c \in CountInputs :
        data = [NewRecords(lastDay) EXCEPT ![1].Count = a,
                                           ![NumRecords - 170].Count = b,
                                           ![NumRecords].Count = c]
    /\ nEvents = 0
    /\ ev = NoEvent
    /\ slices = <<>>
    /\ rest = <<>>
    /\ err = ""
    /\ q = NoQ

\* The intensities ia and ib of the records a and b and the levels drawn.
comparedPair(a, b, ia, ib, levels) ==
    [a |-> a, b |-> b, ia |-> ia, ib |-> ib,
     la |-> col(ia, levels), lb |-> col(ib, levels)]

\* renderDay draws the cells of two records of the graph.
DrawPair ==
    /\ pc = "pair"
    /\ \E i \in PairIndices, j \in PairIndices :
        q' = comparedPair(data[i], data[j], intensity(data, data[i]),
                          intensity(data, data[j]), cfg.levels)
    /\ pc' = "compared"
    /\ UNCHANGED <<cfg, lastDay, data, nEvents, ev, slices, rest, err, out>>

SpecPair == InitPair /\ [][DrawPair]_vars

----------------------------------------------------------------------------
(* Render token by token: every call of e.EncodeToken Render and the       *)
(* functions it calls make, in the order of the code, each call writing    *)
(* its token to the sink or failing.                                       *)
(*                                                                         *)
(* A position is the next call of EncodeToken: [part, i, ph, j, k], the    *)
(* part of the document, the slice, the phase within the slice, the        *)
(* record within the slice and the token within the phase, the record or   *)
(* the part.                                                               *)

Pos(part, i, ph, j, k) == [part |-> part, i |-> i, ph |-> ph, j |-> j, k |-> k]

\* Render has returned.
Return == Pos("return", 0, "", 0, 0)

\* No call yet.
NoPos == Pos("none", 0, "", 0, 0)

\* The tokens of a text element with plain content (simpleText), of a
\* rectangle (coloredRoundedRect, emptyElement), of the label of the overall
\* count (renderOverallContributions) and of an overlay cell with its tooltip
\* (renderDay with overlay, renderTooltip).
TextTokens ==
    << <<"text", "start">>, <<"text", "chars">>, <<"text", "end">> >>

RectTokens == << <<"rect", "start">>, <<"rect", "end">> >>

CountTextTokens ==
    << <<"text", "start">>, <<"tspan", "start">>, <<"tspan", "chars">>,
       <<"tspan", "end">>, <<"text", "chars">>, <<"text", "end">> >>

OverlayTokens ==
    RectTokens
        \o << <<"g", "start">>, <<"rect", "start">>, <<"rect", "end">>,
              <<"polygon", "start">>, <<"polygon", "end">> >>
        \o CountTextTokens
        \o << <<"g", "end">> >>

\* The tokens of the stylesheet (style), of the weekday axis
\* (renderWeekdayAxis) and of the legend (renderLegend).
StyleTokens ==
    << <<"style", "start">>, <<"style", "chars">>, <<"style", "end">> >>

AxisTokens == TextTokens \o TextTokens \o TextTokens

LegendTokens ==
    TextTokens \o RectTokens \o RectTokens \o RectTokens \o RectTokens
        \o RectTokens \o TextTokens

\* The overlay cells written without their tooltips.
DayTokensNoTooltip(overlay) == RectTokens

\* The tokens renderDay writes for one record.
DayTokens(overlay) == IF overlay THEN OverlayTokens ELSE RectTokens

\* The tokens of a part that is no pass over the slices.
PartTokens(part) ==
    IF part = "svg" THEN << <<"svg", "start">> >>
    ELSE IF part = "style" THEN StyleTokens
    ELSE IF part = "axis" THEN AxisTokens
    ELSE IF part = "matrix" THEN << <<"g", "start">> >>
    ELSE IF part = "matrixEnd" THEN << <<"g", "end">> >>
    ELSE IF part = "overall" THEN CountTextTokens
    ELSE IF part = "legend" THEN LegendTokens
    ELSE << <<"svg", "end">> >>

\* The part Render goes on with when a part is written.
NextPart(part) ==
    IF part = "svg" THEN "style"
    ELSE IF part = "style" THEN "axis"
    ELSE IF part = "axis" THEN "matrix"
    ELSE IF part = "matrixEnd" THEN "overall"
    ELSE IF part = "overall" THEN "legend"
    ELSE IF part = "legend" THEN "svgEnd"
    ELSE "return"

\* The token the call at position p writes.
tokenAt(p) ==
    IF p.part \in {"pass1", "pass2"}
    THEN IF p.ph \in {"open", "daysOpen"} THEN <<"g", "start">>
         ELSE IF p.ph \in {"close", "daysClose"} THEN <<"g", "end">>
         ELSE IF p.ph = "label" THEN TextTokens[p.k]
         ELSE DayTokens(p.part = "pass2")[p.k]
    ELSE PartTokens(p.part)[p.k]

\* weekSlice.isFirstWeekOfMonth.
isFirstWeekOfMonth(w) ==
    Civil(w.Date.day).d >= 1 /\ Civil(w.Date.day).d <= 7

\* The anchor and the offset of the month label weekSlice.render writes.
monthLabel(w) ==
    IF w.Index = 52 THEN [anchor |-> "end", dx |-> 10]
    ELSE [anchor |-> "start", dx |-> 0]

\* The two passes drawn slice by slice: the overlay of a slice right after
\* its solid cells.
afterSliceInterleaved(part, i, n) ==
    IF part = "pass1" THEN Pos("pass2", i, "open", 0, 0)
    ELSE IF i + 1 < n THEN Pos("pass1", i + 1, "open", 0, 0)
    ELSE Pos("matrixEnd", 0, "", 0, 1)

\* The call after the group of slice i of n is closed: the next slice of
\* the pass, the first slice of pass 2 after pass 1, the end of the matrix
\* after pass 2.
afterSlice(part, i, n) ==
    IF i + 1 < n THEN Pos(part, i + 1, "open", 0, 0)
    ELSE IF part = "pass1" THEN Pos("pass2", 0, "open", 0, 0)
    ELSE Pos("matrixEnd", 0, "", 0, 1)

\* The call after the call at position p of a pass has written its token,
\* w being the slice drawn.
succInSlice(p, w, n) ==
    IF p.ph = "open"
    THEN IF p.part = "pass1" /\ isFirstWeekOfMonth(w)
         THEN Pos(p.part, p.i, "label", 0, 1)
         ELSE Pos(p.part, p.i, "daysOpen", 0, 0)
    ELSE IF p.ph = "label"
    THEN IF p.k < Len(TextTokens) THEN Pos(p.part, p.i, "label", 0, p.k + 1)
         ELSE Pos(p.part, p.i, "daysOpen", 0, 0)
    ELSE IF p.ph = "daysOpen"
    THEN IF Len(w.Records) > 0 THEN Pos(p.part, p.i, "day", 1, 1)
         ELSE Pos(p.part, p.i, "daysClose", 0, 0)
    ELSE IF p.ph = "day"
    THEN IF p.k < Len(DayTokens(p.part = "pass2"))
         THEN Pos(p.part, p.i, "day", p.j, p.k + 1)
         ELSE IF p.j < Len(w.Records) THEN Pos(p.part, p.i, "day", p.j + 1, 1)
         ELSE Pos(p.part, p.i, "daysClose", 0, 0)
    ELSE IF p.ph = "daysClose" THEN Pos(p.part, p.i, "close", 0, 0)
    ELSE afterSlice(p.part, p.i, n)

\* The call after the call at position p has written its token, ws being
\* the slices prepared.
succ(p, ws) ==
    IF p.part \in {"pass1", "pass2"} THEN succInSlice(p, ws[p.i + 1], Len(ws))
    ELSE IF p.part = "matrix"
    THEN IF Len(ws) > 0 THEN Pos("pass1", 0, "open", 0, 0)
         ELSE Pos("matrixEnd", 0, "", 0, 1)
    ELSE IF p.k < Len(PartTokens(p.part)) THEN Pos(p.part, 0, "", 0, p.k + 1)
    ELSE IF NextPart(p.part) = "return" THEN Return
    ELSE Pos(NextPart(p.part), 0, "", 0, 1)

\* Where Render goes on when the call at position p returns an error. The
\* content of the text of a count (the label of the overall count and the
\* text of a tooltip) answers an error of its tspan with return nil, so the
\* text element goes on to write its end tag; everywhere else the error is
\* returned, up to the caller of Render.
onError(p) ==
    IF tokenAt(p)[1] = "tspan"
    THEN IF p.part = "overall" THEN Pos("overall", 0, "", 0, Len(CountTextTokens))
         ELSE Pos(p.part, p.i, "day", p.j, Len(OverlayTokens) - 1)
    ELSE Return

\* No cell drawn yet.
NoCell == [X |-> -1, Y |-> -1]

\* The cell with column and row exchanged.
cellOffsetExchanged(i, record) == [X |-> 12 * Weekday(record.Date), Y |-> 12 * i]

\* The place of the cell of a record of slice i in the group of the matrix:
\* the group of the slice is translated by X: 12 * i, the cell is drawn at
\* y := int(record.Date.Weekday()) * 12 (the group of the days is translated
\* by Y: 20 for every cell alike).
cellOffset(i, record) == [X |-> 12 * i, Y |-> 12 * Weekday(record.Date)]

\* No month label.
NoLabel == [anchor |-> "", dx |-> 0]

\* The encoder and the document before the first call: the next call, the
\* encoder's write error (it is kept: once a write to the sink has failed
\* every later call of EncodeToken returns the error and writes nothing), the
\* calls made after the failed one, the last two tokens written, what is
\* written so far of the cells, the overlays, the tooltips and the month
\* labels of the slice being drawn, and the place of the cell drawn last.
FirstCall ==
    [pos |-> Pos("svg", 0, "", 0, 1), failed |-> FALSE, after |-> 0,
     emitted |-> NoPos, before |-> NoPos,
     cells |-> 0, overlays |-> 0, tooltips |-> 0,
     labels |-> 0, label |-> NoLabel, cell |-> NoCell]

\* 1 if the token at p ends what is counted, else 0: a solid cell, an
\* overlay cell, a tooltip.
endsCell(p) ==
    IF p.part = "pass1" /\ p.ph = "day" /\ p.k = Len(RectTokens) THEN 1 ELSE 0

endsOverlay(p) ==
    IF p.part = "pass2" /\ p.ph = "day" /\ p.k = Len(RectTokens) THEN 1 ELSE 0

endsTooltip(p) ==
    IF p.part = "pass2" /\ p.ph = "day" /\ p.k = Len(OverlayTokens) THEN 1 ELSE 0

\* The document after the token at st.pos is written, lab being the month
\* label of the slice drawn and cell the place of the cell drawn.
written(st, lab, cell) ==
    [st EXCEPT !.emitted = st.pos,
               !.cell = IF st.pos.ph = "day" /\ st.pos.k = 1 THEN cell ELSE @,
               !.before = st.emitted,
               !.cells = @ + endsCell(st.pos),
               !.overlays = @ + endsOverlay(st.pos),
               !.tooltips = @ + endsTooltip(st.pos),
               !.labels = IF st.pos.ph = "open" THEN 0
                          ELSE IF st.pos.ph = "label" /\ st.pos.k = 1 THEN @ + 1
                          ELSE @,
               !.label = IF st.pos.ph = "label" /\ st.pos.k = 1 THEN lab
                         ELSE IF st.pos.ph = "open" THEN NoLabel ELSE @]

\* The encoder after the call at st.pos returned an error.
refused(st) ==
    [st EXCEPT !.after = IF st.failed THEN @ + 1 ELSE @,
               !.failed = TRUE]

\* The state after the call at st.pos: ok tells whether the token is
\* written, p is the slices as prepared when the group of the matrix is
\* open.
called(st, ok, p) ==
    IF ~ok THEN [refused(st) EXCEPT !.pos = onError(st.pos)]
    ELSE IF p.err # "" THEN [written(st, NoLabel, NoCell) EXCEPT !.pos = Return]
    ELSE [written(st,
                  IF st.pos.ph = "label"
                  THEN monthLabel(p.slices[st.pos.i + 1]) ELSE NoLabel,
                  IF st.pos.ph = "day" /\ st.pos.k = 1
                  THEN cellOffset(st.pos.i,
                                  p.slices[st.pos.i + 1].Records[st.pos.j])
                  ELSE NoCell)
             EXCEPT !.pos = succ(st.pos, p.slices)]

InitRender ==
    /\ out = NoOutput
    /\ pc = "rendering"
    /\ cfg \in [color : {"39D352"}, levels : {MinLevels}, until : UntilInputs]
    /\ lastDay = getUntilDate(cfg.until)
    /\ data = NewRecords(lastDay)
    /\ nEvents = 0
    /\ ev = NoEvent
    /\ slices = <<>>
    /\ rest = data
    /\ err = ""
    /\ q = FirstCall

\* One call of e.EncodeToken: the token is written, or the write fails (and
\* fails for good once it has failed). The slices are prepared when the
\* group of the matrix is open.
EncodeToken ==
    /\ pc = "rendering"
    /\ \E ok \in (IF q.failed THEN {FALSE} ELSE BOOLEAN) :
        \E p \in {IF ok /\ q.pos.part = "matrix"
                  THEN prepareSlices(lastDay, 0, sliceCount(lastDay),
                                     [err |-> "", slices |-> <<>>, records |-> data])
                  ELSE [err |-> "", slices |-> slices, records |-> rest]} :
            /\ q' = called(q, ok, p)
            /\ slices' = p.slices
            /\ rest' = p.records
            /\ pc' = IF q'.pos = Return THEN "returned" ELSE "rendering"
            /\ err' = IF q'.pos # Return THEN err
                      ELSE IF ~ok THEN "write failed"
                      ELSE p.err
    /\ UNCHANGED <<cfg, lastDay, data, nEvents, ev, out>>

NextRender ==
    \/ EncodeToken
    \/ Flush
    \/ CreateFile
    \/ WriteFile

SpecRender == InitRender /\ [][NextRender]_vars

----------------------------------------------------------------------------
(* The stylesheet: getColorScheme, GetColoring, defaultColoring and        *)
(* renderStyle. A colour is the sequence of its R, G and B channels.       *)

\* The 'color' parameters a stylesheet is made for.
StyleColors == {"39D352", "000000", "FFFFFF"}

\* colorx.ParseHexColor of the colours of StyleColors.
ParseHexColor(colorStr) ==
    IF colorStr = "39D352" THEN <<57, 211, 82>>
    ELSE IF colorStr = "000000" THEN <<0, 0, 0>>
    ELSE <<255, 255, 255>>

\* The 'levels' parameters a stylesheet is made for.
StyleLevels == {MinLevels, MinLevels + 1, MaxLevels}

\* getColorScheme: the spectra from a shade of grey (#ebedf0 light, #2d333b
\* dark) to the given colour.
getColorScheme(color) ==
    [Light |-> [Min |-> <<235, 237, 240>>, Max |-> color],
     Dark |-> [Min |-> <<45, 51, 59>>, Max |-> color]]

\* A quotient cut toward zero.
truncate(num, den) ==
    IF num >= 0 THEN num \div den ELSE -((-num) \div den)

\* uint8(x) of a float64 with integer part t, t > -256. A negative value
\* cannot be represented and the result depends on the implementation:
\* wraps tells whether the build converts through a signed integer and
\* keeps the low 8 bits, or gives 0.
uint8OfFloat(t, wraps) ==
    IF t >= 0 THEN t % 256
    ELSE IF wraps THEN t % 256
    ELSE 0

\* m of defaultColoring:
\*     a + uint8(math.Round(float64(b)-float64(a))/256.0*float64(intensity))
\* math.Round is applied to the difference, which is an integer already;
\* the quotient by 256 and the product are exact in float64, the conversion
\* to uint8 cuts the fraction, and the sum is a sum of uint8s.
channel(a, b, level, wraps) ==
    (a + uint8OfFloat(truncate((b - a) * level, 256), wraps)) % 256

\* defaultColoring.
defaultColoring(cmin, cmax, level, wraps) ==
    [c \in 1 .. 3 |-> channel(cmin[c], cmax[c], level, wraps)]

\* GetColoring: the colouring of a scheme.
Coloring(scheme, level, darkScheme, wraps) ==
    LET spectrum == IF darkScheme THEN scheme.Dark ELSE scheme.Light
    IN  defaultColoring(spectrum.Min, spectrum.Max, level, wraps)

\* The intensity renderStyle colours level i with:
\*     uint8(uint(i)*255/(uint(g.Levels)-1))
levelIntensity(i, levels) == ((i * 255) \div (levels - 1)) % 256

\* The loop of renderStyle that stops one level early.
moreLevelsButLast(i, levels) == i < levels - 1

\* The condition of the loops of renderStyle: i < g.Levels.
moreLevels(i, levels) == i < levels

\* renderStyle is called: no colour yet, i = 0.
InitStyle ==
    /\ out = NoOutput
    /\ pc = "light"
    /\ cfg \in [color : StyleColors, levels : StyleLevels,
                until : {[day |-> FirstUntil, sec |-> 0, ns |-> 0]}]
    /\ lastDay = ZeroTime
    /\ data = <<>>
    /\ nEvents = 0
    /\ ev = NoEvent
    /\ slices = <<>>
    /\ rest = <<>>
    /\ err = ""
    /\ \E w \in BOOLEAN :
        q = [wraps |-> w, i |-> 0, lightColors |-> <<>>, darkColors |-> <<>>,
             lightVars |-> {}, darkVars |-> {}, classes |-> {},
             ref |-> [by |-> "none", level |-> 0]]

\* One iteration of a loop of renderStyle: the colour of level i is
\* appended and the uint8 i incremented.
AppendLight ==
    /\ pc = "light"
    /\ moreLevels(q.i, cfg.levels)
    /\ q' = [q EXCEPT
                !.lightColors =
                    Append(@, Coloring(getColorScheme(ParseHexColor(cfg.color)),
                                       levelIntensity(q.i, cfg.levels),
                                       FALSE, q.wraps)),
                !.i = (@ + 1) % 256]
    /\ UNCHANGED <<pc, cfg, lastDay, data, nEvents, ev, slices, rest, err, out>>

EndLight ==
    /\ pc = "light"
    /\ ~moreLevels(q.i, cfg.levels)
    /\ q' = [q EXCEPT !.i = 0]
    /\ pc' = "dark"
    /\ UNCHANGED <<cfg, lastDay, data, nEvents, ev, slices, rest, err, out>>

AppendDark ==
    /\ pc = "dark"
    /\ moreLevels(q.i, cfg.levels)
    /\ q' = [q EXCEPT
                !.darkColors =
                    Append(@, Coloring(getColorScheme(ParseHexColor(cfg.color)),
                                       levelIntensity(q.i, cfg.levels),
                                       TRUE, q.wraps)),
                !.i = (@ + 1) % 256]
    /\ UNCHANGED <<pc, cfg, lastDay, data, nEvents, ev, slices, rest, err, out>>

EndDark ==
    /\ pc = "dark"
    /\ ~moreLevels(q.i, cfg.levels)
    /\ pc' = "template"
    /\ UNCHANGED <<q, cfg, lastDay, data, nEvents, ev, slices, rest, err, out>>

\* tmpl.Execute: the template ranges over .LightColors for the variables of
\* the light scheme and for the fill classes, over .DarkColors for the
\* variables of the dark scheme, $idx from 0.
ExecuteTemplate ==
    /\ pc = "template"
    /\ q' = [q EXCEPT !.lightVars = {k - 1 : k \in 1 .. Len(q.lightColors)},
                      !.darkVars = {k - 1 : k \in 1 .. Len(q.darkColors)},
                      !.classes = {k - 1 : k \in 1 .. Len(q.lightColors)}]
    /\ pc' = "styled"
    /\ UNCHANGED <<cfg, lastDay, data, nEvents, ev, slices, rest, err, out>>

\* renderDay gives a solid cell the class of its level.
CellClass ==
    /\ pc = "styled"
    /\ \E i \in 0 .. 255 :
        q' = [q EXCEPT !.ref = [by |-> "cell", level |-> col(i, cfg.levels)]]
    /\ pc' = "classed"
    /\ UNCHANGED <<cfg, lastDay, data, nEvents, ev, slices, rest, err, out>>

\* renderLegend gives a swatch the class of its level.
SwatchClass ==
    /\ pc = "styled"
    /\ \E i \in 0 .. LegendSwatches - 1 :
        q' = [q EXCEPT !.ref = [by |-> "swatch",
                                level |-> legendLevel(cfg.levels, i)]]
    /\ pc' = "classed"
    /\ UNCHANGED <<cfg, lastDay, data, nEvents, ev, slices, rest, err, out>>

NextStyle ==
    \/ AppendLight
    \/ EndLight
    \/ AppendDark
    \/ EndDark
    \/ ExecuteTemplate
    \/ CellClass
    \/ SwatchClass

SpecStyle == InitStyle /\ [][NextStyle]_vars

\* Render runs on: a step that can be taken is taken.
FairSpecStyle == SpecStyle /\ WF_vars(NextStyle)

----------------------------------------------------------------------------
(* getUntilDate as a function of the parsed date.                          *)

\* The days of the 'until' values converted: the days of UntilInputs, the
\* first day of the epoch, the last day of 2023 and the leap day of 2024.
UntilDays ==
    (FirstUntil .. FirstUntil + UntilSpan - 1)
        \cup {0, DateToDay(2023, 12, 31), DateToDay(2024, 2, 29)}

\* The times of the day of the 'until' values converted.
UntilClocks == {0, 1, 12 * 3600, SecondsPerDay - 1}
UntilNanos == {0, 1, NanosPerSecond - 1}

\* The parsed dates of a day.
TimesOf(d) == {[day |-> d, sec |-> c, ns |-> n] : c \in UntilClocks, n \in UntilNanos}

\* Two 'until' values, on the same day or on two days in a row.
InitUntil ==
    /\ out = NoOutput
    /\ pc = "until"
    /\ cfg = [color |-> "39D352", levels |-> MinLevels,
              until |-> [day |-> FirstUntil, sec |-> 0, ns |-> 0]]
    /\ lastDay = ZeroTime
    /\ data = <<>>
    /\ nEvents = 0
    /\ ev = NoEvent
    /\ slices = <<>>
    /\ rest = <<>>
    /\ err = ""
    /\ \E d \in UntilDays : \E a \in TimesOf(d) : \E b \in TimesOf(d) \cup TimesOf(d + 1) :
        q = [a |-> a, b |-> b, lastA |-> ZeroTime, lastB |-> ZeroTime,
             again |-> ZeroTime]

\* getUntilDate of both values, and of its own result.
ConvertUntil ==
    /\ pc = "until"
    /\ q' = [q EXCEPT !.lastA = getUntilDate(q.a),
                      !.lastB = getUntilDate(q.b),
                      !.again = getUntilDate(getUntilDate(q.a))]
    /\ pc' = "converted"
    /\ UNCHANGED <<cfg, lastDay, data, nEvents, ev, slices, rest, err, out>>

SpecUntil == InitUntil /\ [][ConvertUntil]_vars

----------------------------------------------------------------------------
(* DaysBetween as a function of two times.                                 *)

\* The day of the first time: 2023-01-15.
DaysFrom == DateToDay(2023, 1, 15)

\* The days from the day of the first time to the day of the second: one
\* month and two days, and the ends of the window of the aggregation.
DayDistances ==
    {-1, 0, 1, DateToDay(2023, 2, 17) - DaysFrom, 169, 170, 171,
     NumRecords - 1, NumRecords}

\* The times of day of both: midnight, one nanosecond later, 23:00, and the
\* last two nanoseconds of the day.
DayClocks ==
    {[sec |-> 0, ns |-> 0], [sec |-> 0, ns |-> 1], [sec |-> 23 * 3600, ns |-> 0],
     [sec |-> SecondsPerDay - 1, ns |-> NanosPerSecond - 2],
     [sec |-> SecondsPerDay - 1, ns |-> NanosPerSecond - 1]}

InitDays ==
    /\ out = NoOutput
    /\ pc = "days"
    /\ cfg = [color |-> "39D352", levels |-> MinLevels,
              until |-> [day |-> FirstUntil, sec |-> 0, ns |-> 0]]
    /\ lastDay = ZeroTime
    /\ data = <<>>
    /\ nEvents = 0
    /\ ev = NoEvent
    /\ slices = <<>>
    /\ rest = <<>>
    /\ err = ""
    /\ \E n \in DayDistances : \E ca \in DayClocks : \E cb \in DayClocks :
        q = [a |-> [day |-> DaysFrom, sec |-> ca.sec, ns |-> ca.ns],
             b |-> [day |-> DaysFrom + n, sec |-> cb.sec, ns |-> cb.ns],
             days |-> 0, idx |-> 0]

\* DaysBetween(a, b), and the index of a as the date of an event with b as
\* lastDay.
ComputeDays ==
    /\ pc = "days"
    /\ q' = [q EXCEPT !.days = DaysBetween(q.a, q.b),
                      !.idx = IndexOf(q.a, q.b)]
    /\ pc' = "computed"
    /\ UNCHANGED <<cfg, lastDay, data, nEvents, ev, slices, rest, err, out>>

SpecDays == InitDays /\ [][ComputeDays]_vars

----------------------------------------------------------------------------
(* previousSunday as a function of the date.                               *)

\* The weeks the dates are taken from, from each first day on.
WeeksOfDates == 3

\* The dates: the weeks from 2023-01-01 (a Sunday) on, and the weeks from
\* 2024-02-20 on, over the leap day and the end of the month.
SundayInputs ==
    {[day |-> d0 + k, sec |-> c, ns |-> 0] :
        d0 \in {DateToDay(2023, 1, 1), DateToDay(2024, 2, 20)},
        k \in 0 .. 7 * WeeksOfDates - 1,
        c \in {0, 12 * 3600, SecondsPerDay - 1}}

InitSunday ==
    /\ out = NoOutput
    /\ pc = "date"
    /\ cfg = [color |-> "39D352", levels |-> MinLevels,
              until |-> [day |-> FirstUntil, sec |-> 0, ns |-> 0]]
    /\ lastDay = ZeroTime
    /\ data = <<>>
    /\ nEvents = 0
    /\ ev = NoEvent
    /\ slices = <<>>
    /\ rest = <<>>
    /\ err = ""
    /\ \E d \in SundayInputs :
        q = [date |-> d, sunday |-> ZeroTime, again |-> ZeroTime,
             ofNext |-> ZeroTime]

\* previousSunday of the date, of its own result and of the day after the
\* date.
ComputeSunday ==
    /\ pc = "date"
    /\ q' = [q EXCEPT !.sunday = previousSunday(q.date),
                      !.again = previousSunday(previousSunday(q.date)),
                      !.ofNext = previousSunday(AddDate(q.date, 1))]
    /\ pc' = "sunday"
    /\ UNCHANGED <<cfg, lastDay, data, nEvents, ev, slices, rest, err, out>>

SpecSunday == InitSunday /\ [][ComputeSunday]_vars

----------------------------------------------------------------------------
(* The aggregation of a given batch of events in any order: the            *)
(* repositories are the keys of a map, ranged over in no fixed order.      *)

\* The events of a batch: a commit, an issue or a review, one day after
\* lastDay, on lastDay or 170 days before, at midnight or at noon.
OrderDayOffsets == {-1, 0, 170}

OrderEvents(last) ==
    {[src |-> s, when |-> [day |-> last.day - k, sec |-> c, ns |-> 0]] :
        s \in {"commit", "issue", "review"}, k \in OrderDayOffsets,
        c \in EventClocks}

\* What the loop of its source does with an event: the commit r.Log does
\* not hand on and the issue or review of a negative index are skipped, an
\* index outside the records panics, any other is counted.
handled(e, last) ==
    LET i == IndexOf(e.when, last)
        logged == ~Before(e.when, AddDate(last, -NumRecords)) /\ ~After(e.when, last)
    IN  IF e.src = "commit" /\ ~logged THEN [kind |-> "skip", idx |-> i]
        ELSE IF e.src # "commit" /\ i < 0 THEN [kind |-> "skip", idx |-> i]
        ELSE IF i < 0 \/ i >= NumRecords THEN [kind |-> "panic", idx |-> i]
        ELSE [kind |-> "count", idx |-> i]

\* The event counted only on a day without a contribution yet.
countEventOnEmptyDay(records, e, last) ==
    IF handled(e, last).kind = "count" /\ records[handled(e, last).idx + 1].Count = 0
    THEN Increment(records, handled(e, last).idx)
    ELSE records

\* The records after the event: (*records)[idx].Count++ when it is counted.
countEvent(records, e, last) ==
    IF handled(e, last).kind = "count"
    THEN Increment(records, handled(e, last).idx)
    ELSE records

\* The batch: MaxEvents events, none of them processed.
InitOrder ==
    /\ out = NoOutput
    /\ pc = "ordering"
    /\ cfg = [color |-> "39D352", levels |-> MinLevels,
              until |-> [day |-> FirstUntil, sec |-> 0, ns |-> 0]]
    /\ lastDay = getUntilDate(cfg.until)
    /\ data = NewRecords(lastDay)
    /\ nEvents = 0
    /\ ev = NoEvent
    /\ slices = <<>>
    /\ rest = <<>>
    /\ err = ""
    /\ \E b \in [1 .. MaxEvents -> OrderEvents(lastDay)] :
        q = [batch |-> b, left |-> 1 .. MaxEvents]

\* Any event of the batch not processed yet is processed next.
ProcessEvent ==
    /\ pc = "ordering"
    /\ \E k \in q.left :
        /\ q' = [q EXCEPT !.left = @ \ {k}]
        /\ data' = countEvent(data, q.batch[k], lastDay)
        /\ pc' = IF handled(q.batch[k], lastDay).kind = "panic" THEN "panic"
                 ELSE IF q.left = {k} THEN "aggregated"
                 ELSE pc
    /\ nEvents' = nEvents + 1
    /\ UNCHANGED <<cfg, lastDay, ev, slices, rest, err, out>>

SpecOrder == InitOrder /\ [][ProcessEvent]_vars

----------------------------------------------------------------------------
(* Properties of the aggregation (Spec).                                   *)

\* The days by which the date of the event delivered last lies before the
\* date of lastDay.
DaysBack(event, last) == last.day - event.when.day

\* An event of a source reaches the code that counts it: a commit r.Log
\* hands on and no filter matches, an issue, a review.
Counted(event) ==
    event.src \in {"commit", "issue", "review"} /\ ~event.filtered

\* C1: an event on the calendar date lastDay - k days, 0 <= k <= 363, at
\* any time of day, has index 363 - k, and counting it raises the count of
\* record 363 - k by one and leaves every other record as it was.
C1_EventCountedOnItsDay ==
    [][ (/\ nEvents' = nEvents + 1
         /\ Counted(ev')
         /\ DaysBack(ev', lastDay) \in 0 .. NumRecords - 1)
        => /\ ev'.idx = NumRecords - 1 - DaysBack(ev', lastDay)
           /\ pc' = pc
           /\ data' = Increment(data, NumRecords - 1 - DaysBack(ev', lastDay)) ]_vars

\* C2: an event of any of the three sources dated outside the window
\* (before lastDay - 363 days or after lastDay) changes no count and does
\* not stop the aggregation.
C2_OutOfRangeEventIgnored ==
    [][ (/\ nEvents' = nEvents + 1
         /\ DaysBack(ev', lastDay) \notin 0 .. NumRecords - 1)
        => /\ data' = data
           /\ pc' = pc ]_vars

----------------------------------------------------------------------------
(* Properties of the calendar and of its week slices (Spec).               *)

\* The records of the slices s[lo .. hi], in slice order.
RECURSIVE ConcatRecords(_, _, _)
ConcatRecords(s, lo, hi) ==
    IF lo > hi THEN <<>>
    ELSE IF lo = hi THEN s[lo].Records
    ELSE ConcatRecords(s, lo, (lo + hi) \div 2)
             \o ConcatRecords(s, (lo + hi) \div 2 + 1, hi)

\* The sum of the record counts of the slices s[lo .. hi].
RECURSIVE SumRecords(_, _, _)
SumRecords(s, lo, hi) ==
    IF lo > hi THEN 0
    ELSE IF lo = hi THEN Len(s[lo].Records)
    ELSE SumRecords(s, lo, (lo + hi) \div 2)
             + SumRecords(s, (lo + hi) \div 2 + 1, hi)

\* C3: the week slices hold every record of the calendar exactly once and
\* in order: their records concatenated in slice order are the calendar,
\* nothing is left over, and their record counts sum to 364.
C3_PartitionComplete ==
    pc = "done" =>
        /\ ConcatRecords(slices, 1, Len(slices)) = data
        /\ rest = <<>>
        /\ SumRecords(slices, 1, Len(slices)) = NumRecords

\* A rendered calendar that counts an event, cut into 53 slices of which the
\* first and the last are partial.
C3_Witness ==
    /\ pc = "done"
    /\ Len(slices) = 53
    /\ Len(slices[1].Records) < 7
    /\ Len(slices[53].Records) < 7
    /\ \E i \in 1 .. NumRecords : data[i].Count > 0

\* C4: there are 52 week slices when lastDay is a Saturday and 53 on every
\* other weekday.
C4_SliceCount ==
    pc = "done" =>
        Len(slices) = IF Weekday(lastDay) = Saturday THEN 52 ELSE 53

\* A graph rendered for a Saturday, in 52 slices.
C4_Witness ==
    pc = "done" /\ Weekday(lastDay) = Saturday /\ Len(slices) = 52

\* C5: every slice runs from Sunday to Saturday, except that slice 0 starts
\* on (weekday(lastDay) + 1) mod 7 and the last slice ends on
\* weekday(lastDay); each holds last - first + 1 records, so the slices
\* between the first and the last are full weeks, and for a Saturday all 52
\* slices are full weeks and slice 0 starts on Sunday.
C5_SliceBounds ==
    pc = "done" =>
        /\ \A k \in 1 .. Len(slices) :
            /\ slices[k].First = IF k = 1 THEN (Weekday(lastDay) + 1) % 7
                                 ELSE Sunday
            /\ slices[k].Last = IF k = Len(slices) THEN Weekday(lastDay)
                                ELSE Saturday
            /\ Len(slices[k].Records) = slices[k].Last - slices[k].First + 1
            /\ (1 < k /\ k < Len(slices) => Len(slices[k].Records) = 7)
        /\ (Weekday(lastDay) = Saturday =>
                /\ slices[1].First = Sunday
                /\ \A k \in 1 .. Len(slices) : Len(slices[k].Records) = 7)

\* A graph rendered for a Wednesday: slice 0 runs from Thursday and the
\* last slice to Wednesday.
C5_Witness ==
    /\ pc = "done"
    /\ Weekday(lastDay) = 3
    /\ slices[1].First = 4
    /\ Len(slices[1].Records) = 3
    /\ slices[Len(slices)].Last = 3
    /\ Len(slices[Len(slices)].Records) = 4

\* The calendar day after the day c = [y, m, d].
NextCivil(c) ==
    IF c.d < DaysIn(c.y, c.m) THEN [c EXCEPT !.d = c.d + 1]
    ELSE IF c.m < 12 THEN [y |-> c.y, m |-> c.m + 1, d |-> 1]
    ELSE [y |-> c.y + 1, m |-> 1, d |-> 1]

\* C6: the calendar run creates has 364 records, all of count 0 before any
\* event is counted, dated with consecutive calendar days in ascending
\* order, the last one lastDay and the first one lastDay - 363 days.
C6_CalendarContiguous ==
    (pc = "commits" /\ nEvents = 0) =>
        /\ Len(data) = NumRecords
        /\ \A i \in 1 .. NumRecords : data[i].Count = 0
        /\ \A i \in 1 .. NumRecords - 1 :
            /\ Civil(data[i + 1].Date.day) = NextCivil(Civil(data[i].Date.day))
            /\ data[i + 1].Date.day = data[i].Date.day + 1
        /\ data[NumRecords].Date = lastDay
        /\ data[1].Date.day = lastDay.day - (NumRecords - 1)

\* A fresh calendar whose window holds a February 29th.
C6_Witness ==
    /\ pc = "commits"
    /\ nEvents = 0
    /\ \E i \in 2 .. NumRecords - 1 :
        Civil(data[i].Date.day).m = 2 /\ Civil(data[i].Date.day).d = 29

\* C17: the reference date of slice i is the Sunday on or before
\* lastDay - (sliceCount - i - 1) * 7 days, and every record of the slice
\* lies in the week starting then: its date is the reference date plus
\* its weekday, and its weekday lies between first and last of the slice.
C17_SliceWeek ==
    pc = "done" =>
        \A k \in 1 .. Len(slices) :
            /\ Weekday(slices[k].Date) = Sunday
            /\ slices[k].Date.day <= lastDay.day - (Len(slices) - k) * 7
            /\ slices[k].Date.day > lastDay.day - (Len(slices) - k) * 7 - 7
            /\ \A j \in 1 .. Len(slices[k].Records) :
                /\ slices[k].Records[j].Date.day
                       = slices[k].Date.day + Weekday(slices[k].Records[j].Date)
                /\ slices[k].First <= Weekday(slices[k].Records[j].Date)
                /\ Weekday(slices[k].Records[j].Date) <= slices[k].Last

\* A graph rendered for a Sunday: the last slice refers to the last day
\* itself and holds this one day.
C17_Witness ==
    /\ pc = "done"
    /\ Weekday(lastDay) = Sunday
    /\ slices[Len(slices)].Date.day = lastDay.day
    /\ Len(slices[Len(slices)].Records) = 1

\* C18: building the week slices of a calendar of 364 records never fails:
\* Render goes on to draw them, whatever the last day.
C18_SlicesNeverFail ==
    [][ pc = "render" =>
            /\ Len(data) = NumRecords
            /\ pc' = "done"
            /\ err' = ""
            /\ \A k \in 1 .. Len(slices') :
                /\ Weekday(slices'[k].Date) = Sunday
                /\ slices'[k].First = Sunday \/ slices'[k].Last = Saturday
                /\ Len(slices'[k].Records)
                       = slices'[k].Last - slices'[k].First + 1 ]_vars

\* A graph rendered without error whose first slice is a partial week
\* ending on a Saturday.
C18_Witness ==
    /\ pc = "done"
    /\ err = ""
    /\ slices[1].First # Sunday
    /\ slices[1].Last = Saturday
    /\ Weekday(slices[1].Date) = Sunday

\* The number a sequence of decimal digits denotes.
RECURSIVE DigitsValue(_)
DigitsValue(digits) ==
    IF Len(digits) = 0 THEN 0
    ELSE 10 * DigitsValue(SubSeq(digits, 1, Len(digits) - 1))
             + (CHOOSE d \in 0 .. 9 : Digit(d) = digits[Len(digits)])

\* The sum of the counts of the records with the indices in S.
RECURSIVE SumCounts(_, _)
SumCounts(records, S) ==
    IF S = {} THEN 0
    ELSE LET i == CHOOSE x \in S : TRUE
         IN  records[i].Count + SumCounts(records, S \ {i})

\* C14: the number the label of the overall count shows is the sum of the
\* counts of the 364 records of the rendered calendar (records of count 0
\* add nothing to it), which are the counts the tooltips show.
C14_LabelIsSumOfCounts ==
    pc = "done" =>
        /\ DigitsValue(q.label)
               = SumCounts(data, {i \in 1 .. NumRecords : data[i].Count > 0})
        /\ ConcatRecords(slices, 1, Len(slices)) = data

\* A rendered calendar that counts events at two records, the last one
\* among them, labelled with 2.
C14_Witness ==
    /\ pc = "done"
    /\ data[NumRecords].Count = 1
    /\ \E i \in 1 .. NumRecords - 1 : data[i].Count = 1
    /\ q.label = <<"2">>

----------------------------------------------------------------------------
(* Properties of the level of a cell (SpecLevel).                          *)

\* C7: for every intensity in 0 .. 255 and every number of levels in
\* 5 .. 255 the level of a cell lies in 0 .. levels - 1; intensity 0 has
\* level 0 and intensity 255 has level levels - 1.
C7_LevelInRange ==
    pc = "levelled" =>
        /\ q.level \in 0 .. q.levels - 1
        /\ (q.intensity = 0 => q.level = 0)
        /\ (q.intensity = 255 => q.level = q.levels - 1)

\* The greatest intensity under the greatest number of levels.
C7_Witness ==
    /\ pc = "levelled"
    /\ q.intensity = 255
    /\ q.levels = MaxLevels
    /\ q.level = MaxLevels - 1

\* (levels - 1) / 4 * i rounded to the nearest whole number, halves up.
RoundedSwatchLevel(levels, i) == (2 * (levels - 1) * i + 4) \div 8

\* C15: the legend has 5 swatches, and for every number of levels in
\* 5 .. 255 swatch i shows level round((levels - 1) / 4 * i): swatch 0
\* level 0 and swatch 4 the top level levels - 1.
C15_LegendSwatchLevels ==
    pc = "legend" =>
        /\ q.swatch \in 0 .. 4
        /\ q.level = RoundedSwatchLevel(q.levels, q.swatch)
        /\ (q.swatch = 0 => q.level = 0)
        /\ (q.swatch = 4 => q.level = q.levels - 1)

----------------------------------------------------------------------------
(* Properties of the cells of a graph (SpecCells).                         *)

\* 255 * count / maxCount rounded to the nearest whole number, halves up,
\* and kept within 0 .. 255.
RoundedShare(count, maxCount) ==
    LET r == (2 * 255 * count + maxCount) \div (2 * maxCount)
    IN  IF r > 255 THEN 255 ELSE r

\* C8: the intensity of a record is 0 when the greatest count of the
\* calendar is 0 and round(255 * count / maxCount), kept within 0 .. 255,
\* otherwise.
C8_IntensityIsRoundedShare ==
    pc = "drawn" =>
        q.cell.intensity =
            IF max(data).Count = 0 THEN 0
            ELSE RoundedShare(q.record.Count, max(data).Count)

\* C9: in a calendar whose greatest count is above 0 a record with the
\* greatest count has intensity 255 and is drawn with level levels - 1.
C9_BusiestDayTopLevel ==
    (pc = "drawn" /\ q.record.Count > 0 /\ q.record.Count = max(data).Count) =>
        /\ q.cell.intensity = 255
        /\ q.cell.col = cfg.levels - 1

\* C11: the tooltip anchor of a cell is a function of its slice index and
\* its weekday alone: horizontally left for a slice index below 10, right
\* above 42 and center from 10 to 42; vertically bottom on Sunday, Monday
\* and Tuesday and top on the other days.
C11_AnchorBySliceAndWeekday ==
    pc = "drawn" =>
        /\ q.cell.horizontal =
               IF q.slice \in 0 .. 9 THEN "left"
               ELSE IF q.slice \in 10 .. 42 THEN "center" ELSE "right"
        /\ q.cell.vertical =
               IF Weekday(q.record.Date) \in {Sunday, Sunday + 1, Sunday + 2}
               THEN "bottom" ELSE "top"

\* The Wednesday cell of slice 10, the first centered slice, anchored
\* center and top.
C11_Witness ==
    /\ pc = "drawn"
    /\ q.slice = 10
    /\ Weekday(q.record.Date) = 3
    /\ q.cell.horizontal = "center"
    /\ q.cell.vertical = "top"

\* C20: within one graph a record that counts no more than another has no
\* greater intensity and no greater level, and records of equal counts
\* have equal levels.
C20_QuantisationMonotonic ==
    pc = "compared" =>
        /\ (q.a.Count <= q.b.Count => q.ia <= q.ib /\ q.la <= q.lb)
        /\ (q.a.Count = q.b.Count => q.ia = q.ib /\ q.la = q.lb)

\* Two records of different counts drawn with different intensities and
\* levels.
C20_Witness ==
    /\ pc = "compared"
    /\ 0 < q.a.Count
    /\ q.a.Count < q.b.Count
    /\ q.ia < q.ib
    /\ q.la < q.lb

\* C10: the box of the tooltip of every cell lies within the canvas: its
\* left edge is at 0 or right of it, its right edge at 700 or left of it,
\* its top edge at 0 or below it and its bottom edge at 150 or above it.
C10_TooltipInsideCanvas ==
    pc = "drawn" =>
        /\ q.cell.boxX >= 0
        /\ q.cell.boxX + TooltipWidth <= CanvasWidth
        /\ q.cell.boxY >= 0
        /\ q.cell.boxY + TooltipHeight <= CanvasHeight

\* A cell of the last slice of a 53-slice graph, whose tooltip is anchored
\* right and top and ends one unit short of the right edge.
C10_Witness ==
    /\ pc = "drawn"
    /\ q.slice = 52
    /\ q.cell.horizontal = "right"
    /\ q.cell.vertical = "top"
    /\ q.cell.boxX + TooltipWidth = CanvasWidth - 1

----------------------------------------------------------------------------
(* Properties of Render, token by token (SpecRender).                      *)

\* The passes over the slices.
Passes == {"pass1", "pass2"}

\* The place of a part in the order of the document.
PartRank(part) ==
    IF part = "none" THEN 0
    ELSE IF part = "svg" THEN 1
    ELSE IF part = "style" THEN 2
    ELSE IF part = "axis" THEN 3
    ELSE IF part = "matrix" THEN 4
    ELSE IF part = "pass1" THEN 5
    ELSE IF part = "pass2" THEN 6
    ELSE IF part = "matrixEnd" THEN 7
    ELSE IF part = "overall" THEN 8
    ELSE IF part = "legend" THEN 9
    ELSE 10

\* C12: once a call of EncodeToken has returned an error, whatever the token
\* (the emphasised span of a tooltip and of the label of the overall count
\* included), Render makes no further call to write a token, and it returns
\* an error to its caller.
C12_FailedWriteEndsRender ==
    /\ q.failed => q.after = 0
    /\ pc = "returned" /\ q.failed => err # ""

\* C13: the tokens are written part after part, document start, stylesheet,
\* weekday axis, pass 1, pass 2, overall count, legend, document end, each
\* pass slice after slice from slice 0; no overlay and no tooltip is written
\* while pass 1 is written, every solid cell is written when pass 2 is, and
\* a Render that returns no error has written the document end, and every
\* cell, overlay and tooltip.
C13_PartsInOrder ==
    /\ q.emitted # NoPos =>
        /\ PartRank(q.emitted.part) >= PartRank(q.before.part)
        /\ PartRank(q.emitted.part) <= PartRank(q.before.part) + 1
        /\ q.emitted.part \in Passes =>
            IF q.before.part = q.emitted.part
            THEN q.emitted.i \in {q.before.i, q.before.i + 1}
            ELSE q.emitted.i = 0
        /\ q.emitted.part = "pass1" => q.overlays = 0 /\ q.tooltips = 0
        /\ q.emitted.part = "pass2" => q.cells = NumRecords
        /\ PartRank(q.emitted.part) > PartRank("pass2") =>
            /\ q.cells = NumRecords
            /\ q.overlays = NumRecords
            /\ q.tooltips = NumRecords
    /\ pc = "returned" /\ err = "" =>
        /\ q.emitted.part = "svgEnd"
        /\ q.cells = NumRecords
        /\ q.overlays = NumRecords
        /\ q.tooltips = NumRecords

\* A Render that has returned no error, the whole document written.
C13_Witness ==
    /\ pc = "returned"
    /\ err = ""
    /\ ~q.failed
    /\ q.emitted.part = "svgEnd"
    /\ q.before.part = "legend"
    /\ q.tooltips = NumRecords

\* C16: a month label is written in pass 1 only; when the days of a slice
\* are begun the slice has one month label if it is drawn in pass 1 and the
\* day of the month of its reference date is in 1..7, and none otherwise;
\* the label of the rightmost slice is end-anchored with the offset inward,
\* the label of every other slice start-anchored with no offset.
C16_MonthLabel ==
    q.emitted.part \in Passes =>
        /\ q.emitted.ph = "label" =>
            /\ q.emitted.part = "pass1"
            /\ q.label = IF q.emitted.i = Len(slices) - 1
                         THEN [anchor |-> "end", dx |-> 10]
                         ELSE [anchor |-> "start", dx |-> 0]
        /\ q.emitted.ph = "daysOpen" =>
            q.labels = IF /\ q.emitted.part = "pass1"
                          /\ Civil(slices[q.emitted.i + 1].Date.day).d \in 1 .. 7
                       THEN 1 ELSE 0

\* C27: in pass 2 the token written after the end of an overlay cell is the
\* start of the tooltip group of the same record, and a tooltip group
\* starts right after the overlay cell of its record only; every overlay
\* has its tooltip, one per record when Render has returned no error; pass 1
\* writes solid cells only, no overlay and no tooltip (SpecRender).
C27_OverlayThenTooltip ==
    /\ (q.before.part = "pass2" /\ q.before.ph = "day" /\ q.before.k = 2) =>
        /\ q.emitted = [q.before EXCEPT !.k = 3]
        /\ tokenAt(q.emitted) = <<"g", "start">>
    /\ (q.emitted.part = "pass2" /\ q.emitted.ph = "day" /\ q.emitted.k = 3) =>
        /\ q.before = [q.emitted EXCEPT !.k = 2]
        /\ tokenAt(q.before) = <<"rect", "end">>
    /\ q.tooltips <= q.overlays
    /\ q.overlays <= q.tooltips + 1
    /\ q.emitted.part = "pass1" =>
        /\ q.overlays = 0
        /\ q.tooltips = 0
        /\ q.emitted.ph = "day" => tokenAt(q.emitted)[1] = "rect"
    /\ (q.pos = Return /\ ~q.failed) =>
        /\ q.overlays = NumRecords
        /\ q.tooltips = NumRecords

\* The tooltip group of the fourth record of slice 10 is begun, right after
\* the overlay of the record.
C27_Witness ==
    /\ q.emitted = Pos("pass2", 10, "day", 4, 3)
    /\ q.before = Pos("pass2", 10, "day", 4, 2)
    /\ q.overlays = q.tooltips + 1

\* The day of the week of day number n, Sunday 0: 1970-01-01 is a Thursday.
DayOfWeek(n) == (n + 4) % 7

\* The places of the cells of the records of the slices s, column 12 times
\* the index of the slice and row 12 times the day of the week.
PlacesOf(s) ==
    {[X |-> 12 * (k - 1), Y |-> 12 * DayOfWeek(s[k].Records[j].Date.day)] :
        <<k, j>> \in {<<k, j>> \in (1 .. Len(s)) \X (1 .. 7) : j <= Len(s[k].Records)}}

\* C28: the cell of a record of slice i, solid in pass 1 and overlay in
\* pass 2, is drawn at 12 * i to the right of and 12 * weekday(record.date)
\* below the origin of the grid; the 364 records have 364 different places;
\* pass 1 has drawn 364 cells when pass 2 begins and pass 2 has drawn 364
\* when it is done (SpecRender).
C28_CellPlaces ==
    /\ (q.emitted.part \in Passes /\ q.emitted.ph = "day" /\ q.emitted.k = 1) =>
        LET record == slices[q.emitted.i + 1].Records[q.emitted.j]
        IN  /\ q.cell.X = 12 * q.emitted.i
            /\ q.cell.Y = 12 * DayOfWeek(record.Date.day)
            /\ q.cell.Y \in {0, 12, 24, 36, 48, 60, 72}
    /\ q.emitted.part = "matrix" => Cardinality(PlacesOf(slices)) = 364
    /\ q.emitted.part = "pass1" => q.cells <= 364 /\ q.overlays = 0
    /\ q.emitted.part = "pass2" => q.cells = 364 /\ q.overlays <= 364
    /\ q.emitted.part = "matrixEnd" => q.cells = 364 /\ q.overlays = 364

\* The overlay of the last record, a Saturday in the last of 52 slices, is
\* begun in the bottom row of column 51.
C28_Witness ==
    /\ q.emitted = Pos("pass2", 51, "day", 7, 1)
    /\ Len(slices) = 52
    /\ q.cell = [X |-> 612, Y |-> 72]
    /\ q.overlays = 363

----------------------------------------------------------------------------
(* Properties of run from the configuration to the output file.            *)

\* C22: when the number of levels is below 5 or above 255, or the colour is
\* malformed, run returns a configuration error and has done nothing else:
\* no repository is collected, no calendar record created or incremented,
\* nothing rendered and no output file created (Spec).
C22_ConfigErrorFirst ==
    (cfg.levels < 5 \/ cfg.levels > 255 \/ cfg.color = "39D35") =>
        /\ pc \in {"start", "error"}
        /\ pc = "error" =>
            err \in {"invalid color specification",
                     "invalid number of color levels"}
        /\ pc = "start" => err = ""
        /\ lastDay = ZeroTime
        /\ data = <<>>
        /\ nEvents = 0
        /\ ev = NoEvent
        /\ slices = <<>>
        /\ q = NoQ
        /\ out = NoOutput

\* run has returned the error of 256 levels with a well-formed colour.
C22_Witness ==
    /\ pc = "error"
    /\ cfg.levels = 256
    /\ cfg.color = "39D352"
    /\ err = "invalid number of color levels"
    /\ data = <<>>
    /\ out.file = "none"

\* C23: when Render or the flush of the encoder returns an error, run
\* returns an error and there is no output file, whatever was written to the
\* encoder before; an output file exists only when Render has written the
\* whole document and returned no error and the encoder is flushed
\* (SpecRender).
C23_OutputAllOrNothing ==
    /\ q.failed =>
        /\ pc \in {"rendering", "returned", "error"}
        /\ out = NoOutput
        /\ pc = "returned" => err # ""
        /\ pc = "error" => err = "rending SVG failed"
    /\ (pc = "error" /\ err \in {"rending SVG failed",
                                 "flushing SVG encoder failed"}) =>
            out.file = "none"
    /\ out.file # "none" =>
        /\ out.flushed
        /\ ~q.failed
        /\ q.pos = Return
        /\ q.emitted.part = "svgEnd"
        /\ q.tooltips = NumRecords
    /\ out.flushed => ~q.failed /\ q.emitted.part = "svgEnd"

\* run has returned the error of a Render that failed in pass 2, the solid
\* cells written to the encoder, and there is no output file.
C23_Witness ==
    /\ pc = "error"
    /\ err = "rending SVG failed"
    /\ q.failed
    /\ q.cells = NumRecords
    /\ q.emitted.part = "pass2"
    /\ out.file = "none"

----------------------------------------------------------------------------
(* Properties of getUntilDate (SpecUntil).                                 *)

\* C24: getUntilDate gives the last nanosecond, 23:59:59.999999999, of the
\* calendar day of the value; two values of the same day give the same
\* lastDate, values of different days different ones, and getUntilDate of a
\* lastDate is that lastDate.
C24_UntilIsEndOfDay ==
    pc = "converted" =>
        /\ q.lastA = [day |-> q.a.day, sec |-> 86399, ns |-> 999999999]
        /\ Civil(q.lastA.day) = Civil(q.a.day)
        /\ (q.a.day = q.b.day) <=> (q.lastA = q.lastB)
        /\ q.again = q.lastA

\* Midnight and the last nanosecond but one of the leap day converted.
C24_Witness ==
    /\ pc = "converted"
    /\ Civil(q.a.day) = [y |-> 2024, m |-> 2, d |-> 29]
    /\ q.a.sec = 0 /\ q.a.ns = 0
    /\ q.b.day = q.a.day /\ q.b.sec = 86399 /\ q.b.ns = 1
    /\ q.lastA = q.lastB

----------------------------------------------------------------------------
(* Properties of DaysBetween (SpecDays).                                   *)

\* The whole 24-hour periods in the duration d, toward zero.
WholeDays(d) ==
    IF d.neg THEN -(d.s \div SecondsPerDay) ELSE d.s \div SecondsPerDay

\* C25: DaysBetween(a, b) is the number of whole 24-hour periods from a to
\* b, cut toward zero and never rounded: 0 for a = b and for b less than 24
\* hours after a, n for b exactly n days after a; and the index of the
\* aggregation is 363 - DaysBetween(date, lastDate).
C25_DaysBetweenTruncates ==
    pc = "computed" =>
        /\ q.days = WholeDays(Sub(q.b, q.a))
        /\ q.a = q.b => q.days = 0
        /\ (q.b.day - q.a.day \in {0, 1} /\ ~Before(q.b, q.a)
                /\ Before(q.b, [q.a EXCEPT !.day = @ + 1])) => q.days = 0
        /\ (q.b.sec = q.a.sec /\ q.b.ns = q.a.ns) => q.days = q.b.day - q.a.day
        /\ q.idx = 363 - q.days

----------------------------------------------------------------------------
(* Properties of previousSunday (SpecSunday).                              *)

\* C26: previousSunday(d) is a Sunday, not later than d and fewer than 7
\* days before d, at the time of day of d; it is d when d is a Sunday, so
\* previousSunday of the result is the result; and the days from a Monday to
\* the Saturday after it have the same previous Sunday.
C26_PreviousSunday ==
    pc = "sunday" =>
        /\ DayOfWeek(q.sunday.day) = 0
        /\ q.sunday.day <= q.date.day
        /\ q.date.day - q.sunday.day < 7
        /\ q.sunday.sec = q.date.sec /\ q.sunday.ns = q.date.ns
        /\ DayOfWeek(q.date.day) = 0 => q.sunday = q.date
        /\ q.again = q.sunday
        /\ DayOfWeek(q.date.day) \in 0 .. 5 => q.ofNext = q.sunday
        /\ DayOfWeek(q.date.day) = 6 => q.ofNext.day = q.sunday.day + 7

\* The previous Sunday of Friday 2024-03-01 is 2024-02-25, before the leap
\* day.
C26_Witness ==
    /\ pc = "sunday"
    /\ Civil(q.date.day) = [y |-> 2024, m |-> 3, d |-> 1]
    /\ Civil(q.sunday.day) = [y |-> 2024, m |-> 2, d |-> 25]
    /\ q.ofNext = q.sunday

----------------------------------------------------------------------------
(* Properties of the aggregation in any order (SpecOrder).                 *)

\* The index each event of the batch is counted at, -1 for an event that
\* is not counted.
CountedAt(batch, last) ==
    [k \in DOMAIN batch |->
        IF handled(batch[k], last).kind = "count"
        THEN handled(batch[k], last).idx ELSE -1]

\* The count of every record is the number of the events of S counted at
\* its index, at being the index each event is counted at.
IsTally(records, at, S) ==
    \A i \in 1 .. NumRecords :
        records[i].Count = Cardinality({k \in S : at[k] = i - 1})

\* C29: the count of each of the 364 records depends on the events
\* processed and not on their order: whatever the order the events of a
\* batch are processed in, the count of a record is the number of the
\* counted events of its day among the events processed.
C29_OrderIndependent ==
    pc \in {"ordering", "aggregated"} =>
        \A at \in {CountedAt(q.batch, lastDay)} :
            IsTally(data, at, (1 .. MaxEvents) \ q.left)

\* A batch with two events of two sources on one day and none on another
\* day, aggregated.
C29_Witness ==
    /\ pc = "aggregated"
    /\ q.batch[1].src = "commit"
    /\ q.batch[2].src = "review"
    /\ data[NumRecords].Count = 2
    /\ data[NumRecords - 170].Count = 0

----------------------------------------------------------------------------
(* Properties of the stylesheet (SpecStyle).                               *)

\* The quotient num / 256 rounded to the nearest integer, halves away from
\* zero.
RoundedOver256(num) ==
    IF num >= 0 THEN (2 * num + 256) \div 512
    ELSE -((2 * (-num) + 256) \div 512)

\* The colours of a spectrum as the claim gives them: colour k (from 1) is
\* the colour of level k - 1.
ColoursAsClaimed(colours, spectrum) ==
    \A k \in 1 .. Len(colours) : \A c \in 1 .. 3 :
        LET lo == spectrum.Min[c]
            hi == spectrum.Max[c]
            atLevel == ((k - 1) * 255) \div (cfg.levels - 1)
        IN  /\ colours[k][c] = lo + RoundedOver256((hi - lo) * atLevel)
            /\ k = 1 => colours[k][c] = lo
            /\ IF lo <= hi THEN colours[k][c] \in lo .. hi
               ELSE colours[k][c] \in hi .. lo

\* C21: each channel of the colour of level L, in the light and in the dark
\* scheme, is channelMin + round((channelMax - channelMin) / 256 *
\* intensityAtLevel) with intensityAtLevel = L * 255 / (levels - 1), with no
\* wrap-around; level 0 has the colour spectrum.min and every channel lies
\* between channelMin and channelMax.
C21_LevelColours ==
    LET scheme == getColorScheme(ParseHexColor(cfg.color))
    IN  /\ ColoursAsClaimed(q.lightColors, scheme.Light)
        /\ ColoursAsClaimed(q.darkColors, scheme.Dark)

\* The levels 0 .. levels - 1.
LevelsOf(levels) == 0 .. levels - 1

\* C30: the generation of the stylesheet comes to its end; the stylesheet
\* then defines one colour variable per level 0 .. levels - 1 in the light
\* scheme, one per level in the dark scheme and one fill class per level,
\* and no others; the class of every day cell and of every legend swatch is
\* one of the classes defined.
C30_StylesheetDefinesLevels ==
    /\ [](pc \in {"styled", "classed"} =>
            /\ q.lightVars = LevelsOf(cfg.levels)
            /\ Len(q.lightColors) = cfg.levels
            /\ q.darkVars = LevelsOf(cfg.levels)
            /\ Len(q.darkColors) = cfg.levels
            /\ q.classes = LevelsOf(cfg.levels))
    /\ [](pc = "classed" =>
            /\ q.ref.level \in q.classes
            /\ q.ref.level \in q.lightVars
            /\ q.ref.level \in q.darkVars)
    /\ <>(pc \in {"styled", "classed"})

\* The stylesheet of 255 levels, and the cell of the highest level classed.
C30_Witness ==
    /\ pc = "classed"
    /\ cfg.levels = MaxLevels
    /\ q.ref = [by |-> "cell", level |-> MaxLevels - 1]
    /\ Cardinality(q.classes) = MaxLevels

====
